---- MODULE Spec2Model ----
(***************************************************************************)
(* A model of scripts/make_text.py: the command-line tool that turns a     *)
(* spreadsheet of samples into the tab-separated batch file of             *)
(* CRISPRessoBatch.  One run of the script is one behaviour: main() parses *)
(* the command line and calls make_text_input(), whose statements are the  *)
(* actions below, in program order.                                        *)
(*                                                                         *)
(* Modelling conventions                                                   *)
(*  - a spreadsheet cell is <<>> (NaN / empty cell) or <<v>>;              *)
(*    the cells of the spreadsheet hold text;                              *)
(*  - a float is held as a whole number of tenths (0.2 is 2);              *)
(*  - a DataFrame is [columns, n, data, kind]: the column labels in order, *)
(*    the number of rows, the cells of each column and its dtype;          *)
(*  - the file system is looked at where the code looks at it: which fastq *)
(*    files exist (line 104), whether the fastq directory exists (line     *)
(*    119), whether the output path can be written (line 129);             *)
(*  - assert statements are enabled (the script is not run with -O).       *)
(***************************************************************************)
EXTENDS Integers, Sequences, FiniteSets, TLC

VARIABLES
    argv,                 \* the command line of the run
    inputFile,            \* the input spreadsheet on disk
    outFile,              \* the output file on disk
    log,                  \* the records written to tmp/make_text_log.log
    pc,                   \* the statement the run is at
    params,               \* the parameters make_text_input was called with
    input_df,             \* make_text_input's local input_df
    out_df,               \* make_text_input's local out_df
    missing_fastq_files,  \* make_text_input's local missing_fastq_files
    todo,                 \* the files the loop of line 106 has yet to visit
    steps,                \* the statements the run has completed, in order
    exc,                  \* the exception that ended the run, "" if none
    exit_code             \* <<>> while running, <<c>> once the process ended

vars == <<argv, inputFile, outFile, log, pc, params, input_df, out_df,
          missing_fastq_files, todo, steps, exc, exit_code>>

----------------------------------------------------------------------------
(* Bounds and input domains *)

MaxRows == 2

Names == {"S1", "S2"}
RefSeqs == {"ACGT", "TTGA"}
GuideSeqs == {"AC"}
NoteTexts == {"x"}
FastqDirs == {"/data/", "/data"}

Null == <<>>
Cells(S) == {Null} \cup {<<v>> : v \in S}
IsNull(c) == c = Null

SheetColumns == <<"NGS_sample_name", "Ref_sequence", "Guide_Sequence", "Notes">>

SheetRows ==
    [NGS_sample_name : Cells(Names), Ref_sequence : Cells(RefSeqs),
     Guide_Sequence : Cells(GuideSeqs), Notes : Cells(NoteTexts)]

SeqsUpTo(S, n) == UNION {[1..k -> S] : k \in 0..n}

Sheets == SeqsUpTo(SheetRows, MaxRows)

Unreadable == [readable |-> FALSE, rows |-> <<>>]
Workbook(rows) == [readable |-> TRUE, rows |-> rows]

Absent == [exists |-> FALSE, header |-> <<>>, rows |-> <<>>]
Stale == [exists |-> TRUE, header |-> <<"name">>, rows |-> <<<<"old">>>>]

----------------------------------------------------------------------------
(* Text conversions *)

Digit(d) == SubSeq("0123456789", d + 1, d + 1)

RECURSIVE NatToStr(_)
NatToStr(n) == IF n < 10 THEN Digit(n) ELSE NatToStr(n \div 10) \o Digit(n % 10)

IntToStr(i) == IF i < 0 THEN "-" \o NatToStr(0 - i) ELSE NatToStr(i)

FloatToStr(t) == NatToStr(t \div 10) \o "." \o Digit(t % 10)

DigitVal(ch) == CHOOSE d \in 0..9 : Digit(d) = ch

RECURSIVE StrToNat(_)
StrToNat(s) ==
    IF Len(s) = 0 THEN 0
    ELSE 10 * StrToNat(SubSeq(s, 1, Len(s) - 1)) + DigitVal(SubSeq(s, Len(s), Len(s)))

StrToInt(s) ==
    IF SubSeq(s, 1, 1) = "-" THEN 0 - StrToNat(SubSeq(s, 2, Len(s))) ELSE StrToNat(s)

StrToFloat(s) ==
    LET dot == CHOOSE i \in 1..Len(s) : SubSeq(s, i, i) = "."
    IN 10 * StrToNat(SubSeq(s, 1, dot - 1)) + StrToNat(SubSeq(s, dot + 1, dot + 1))

----------------------------------------------------------------------------
(* The command line: main(), lines 22-64 *)

OptionNames ==
    {"quantification_window_center", "quantification_window_size",
     "min_average_read_quality", "min_frequency_alleles_around_cut_to_plot",
     "plot_window_size"}

\* default= of each add_argument call; the float default 0.2 is 2 tenths
Defaults ==
    [quantification_window_center |-> -3,
     quantification_window_size |-> 1,
     min_average_read_quality |-> 10,
     min_frequency_alleles_around_cut_to_plot |-> 2,
     plot_window_size |-> 20]

\* type= of each add_argument call
Convert(opt, text) ==
    IF opt = "min_frequency_alleles_around_cut_to_plot"
    THEN StrToFloat(text) ELSE StrToInt(text)

\* the text given for an option when the command line gives it
OptionText ==
    [quantification_window_center |-> "-5",
     quantification_window_size |-> "2",
     min_average_read_quality |-> "30",
     min_frequency_alleles_around_cut_to_plot |-> "0.5",
     plot_window_size |-> "40"]

CommandLine(dir, given) ==
    [input_file |-> "in.xlsx", fastq_dir |-> dir, outfile |-> "input.txt",
     opts |-> [o \in OptionNames |-> IF o \in given THEN <<OptionText[o]>> ELSE <<>>]]

\* an option the command line omits takes its default, one it gives is converted
OptionValue(line, opt) ==
    IF line.opts[opt] = <<>> THEN Defaults[opt] ELSE Convert(opt, line.opts[opt][1])

\* parser.parse_args(): the namespace args
ParseArgs(line) ==
    [input_file |-> line.input_file,
     quantification_window_center |-> OptionValue(line, "quantification_window_center"),
     quantification_window_size |-> OptionValue(line, "quantification_window_size"),
     min_average_read_quality |-> OptionValue(line, "min_average_read_quality"),
     fastq_dir |-> line.fastq_dir,
     min_frequency_alleles_around_cut_to_plot |->
         OptionValue(line, "min_frequency_alleles_around_cut_to_plot"),
     plot_window_size |-> OptionValue(line, "plot_window_size"),
     outfile |-> line.outfile]

\* mutant: the two window arguments change places
CallArguments_Swapped(args) ==
    <<args.input_file, args.quantification_window_size,
      args.quantification_window_center, args.min_average_read_quality,
      args.fastq_dir, args.min_frequency_alleles_around_cut_to_plot,
      args.plot_window_size, args.outfile>>

\* the positional arguments of the call of lines 55-64
CallArguments(args) ==
    <<args.input_file, args.quantification_window_center,
      args.quantification_window_size, args.min_average_read_quality,
      args.fastq_dir, args.min_frequency_alleles_around_cut_to_plot,
      args.plot_window_size, args.outfile>>

\* the parameter list of make_text_input, lines 67-76
Signature ==
    <<"input_file", "quantification_window_center", "quantification_window_size",
      "min_average_read_quality", "fastq_dir",
      "min_frequency_alleles_around_cut_to_plot", "plot_window_size", "outfile">>

\* a positional call binds the k-th argument to the k-th parameter
Bind(arguments) ==
    [p \in {Signature[k] : k \in 1..Len(Signature)} |->
        arguments[CHOOSE k \in 1..Len(Signature) : Signature[k] = p]]

NoParams == [p \in {} |-> 0]

----------------------------------------------------------------------------
(* pandas DataFrames *)

NoFrame == [defined |-> FALSE, columns |-> <<>>, n |-> 0, data |-> <<>>, kind |-> <<>>]

Labels(df) == {df.columns[k] : k \in 1..Len(df.columns)}

\* mutant: the first row of the sheet is taken for a second header line
ReadExcel_SkipsFirstRow(file) ==
    [defined |-> TRUE,
     columns |-> SheetColumns,
     n |-> IF Len(file.rows) = 0 THEN 0 ELSE Len(file.rows) - 1,
     data |-> [c \in {SheetColumns[k] : k \in 1..Len(SheetColumns)} |->
                  [i \in 1..(IF Len(file.rows) = 0 THEN 0 ELSE Len(file.rows) - 1) |->
                      file.rows[i + 1][c]]],
     kind |-> [c \in {SheetColumns[k] : k \in 1..Len(SheetColumns)} |-> "str"]]

\* pd.read_excel(input_file): one row per spreadsheet row, an empty cell is NaN
ReadExcel(file) ==
    [defined |-> TRUE,
     columns |-> SheetColumns,
     n |-> Len(file.rows),
     data |-> [c \in {SheetColumns[k] : k \in 1..Len(SheetColumns)} |->
                  [i \in 1..Len(file.rows) |-> file.rows[i][c]]],
     kind |-> [c \in {SheetColumns[k] : k \in 1..Len(SheetColumns)} |-> "str"]]

\* df[[c1, ...]]: the listed columns, every row, in row order
Select(df, cols) ==
    [defined |-> TRUE,
     columns |-> cols,
     n |-> df.n,
     data |-> [c \in {cols[k] : k \in 1..Len(cols)} |-> df.data[c]],
     kind |-> [c \in {cols[k] : k \in 1..Len(cols)} |-> df.kind[c]]]

\* df.columns = [...]: the k-th column takes the k-th new label
Rename(df, labels) ==
    LET old(c) == df.columns[CHOOSE k \in 1..Len(labels) : labels[k] = c]
    IN [defined |-> TRUE,
        columns |-> labels,
        n |-> df.n,
        data |-> [c \in {labels[k] : k \in 1..Len(labels)} |-> df.data[old(c)]],
        kind |-> [c \in {labels[k] : k \in 1..Len(labels)} |-> df.kind[old(c)]]]

\* df[c] = values: replaces column c, or appends it as the last column
SetItem(df, c, values, kind) ==
    [defined |-> TRUE,
     columns |-> IF c \in Labels(df) THEN df.columns ELSE Append(df.columns, c),
     n |-> df.n,
     data |-> (c :> values) @@ df.data,
     kind |-> (c :> kind) @@ df.kind]

\* mutant: the column is appended, whatever loc says
Insert_Appends(df, loc, c, values, kind) ==
    [defined |-> TRUE,
     columns |-> Append(df.columns, c),
     n |-> df.n,
     data |-> (c :> values) @@ df.data,
     kind |-> (c :> kind) @@ df.kind]

\* df.insert(loc, c, value): column c becomes the column at 0-based position loc
Insert(df, loc, c, values, kind) ==
    [defined |-> TRUE,
     columns |-> SubSeq(df.columns, 1, loc) \o <<c>>
                 \o SubSeq(df.columns, loc + 1, Len(df.columns)),
     n |-> df.n,
     data |-> (c :> values) @@ df.data,
     kind |-> (c :> kind) @@ df.kind]

\* a scalar assigned to a column fills every row
Broadcast(df, v) == [i \in 1..df.n |-> <<v>>]

\* series + text and text + series, element by element; NaN stays NaN
AddRight(values, text) ==
    [i \in DOMAIN values |-> IF IsNull(values[i]) THEN Null ELSE <<values[i][1] \o text>>]

\* mutant: the directory is joined to the name as os.path.join would
AddLeft_WithSeparator(text, values) ==
    [i \in DOMAIN values |->
        IF IsNull(values[i]) THEN Null
        ELSE IF Len(text) > 0 /\ SubSeq(text, Len(text), Len(text)) = "/"
             THEN <<text \o values[i][1]>>
             ELSE <<text \o "/" \o values[i][1]>>]

AddLeft(text, values) ==
    [i \in DOMAIN values |-> IF IsNull(values[i]) THEN Null ELSE <<text \o values[i][1]>>]

\* series.astype(str): NaN becomes the text "nan"
AsTypeStr(values) ==
    [i \in DOMAIN values |-> IF IsNull(values[i]) THEN <<"nan">> ELSE values[i]]

\* mutant: all(axis=1), only a row of nothing but NaN counts
NullRows_AllNull(df) ==
    {i \in 1..df.n : \A c \in Labels(df) : IsNull(df.data[c][i])}

\* mutant: only the columns the output is made of are looked at
NullRows_UsedColumns(df) ==
    {i \in 1..df.n : \E c \in Labels(df) \ {"Notes"} : IsNull(df.data[c][i])}

\* df[df.isnull().any(axis=1)]: the rows with a NaN in any column
NullRows(df) ==
    {i \in 1..df.n : \E c \in Labels(df) : IsNull(df.data[c][i])}

Values(values) == {values[i][1] : i \in DOMAIN values}

\* the text to_csv writes for a cell
Format(kind, cell) ==
    IF IsNull(cell) THEN ""
    ELSE IF kind = "int" THEN IntToStr(cell[1])
    ELSE IF kind = "float" THEN FloatToStr(cell[1])
    ELSE cell[1]

\* df.to_csv(outfile, sep="\t", index=False): a header line, then a line per row
ToCsv(df) ==
    [exists |-> TRUE,
     header |-> df.columns,
     rows |-> [i \in 1..df.n |->
                 [k \in 1..Len(df.columns) |->
                     Format(df.kind[df.columns[k]], df.data[df.columns[k]][i])]]]

----------------------------------------------------------------------------
(* The log file *)

Record(level, msg) == [level |-> level, msg |-> msg]

\* lines 14-17: the four records every run starts its log with
StartupLog ==
    <<Record("DEBUG", "DEBUG message."), Record("INFO", "INFO message."),
      Record("WARNING", "WARNING message."), Record("ERROR", "ERROR message.")>>

MissingMessage(file) == "File does not exist: " \o file

LogMissing_AsError(file) == Record("ERROR", MissingMessage(file))

\* line 110: logging.warning("File does not exist: {}".format(file))
LogMissing(file) == Record("WARNING", MissingMessage(file))

\* an exception nothing catches ends the process with a traceback and status 1
Raise(name) ==
    /\ pc' = "aborted"
    /\ exc' = name
    /\ exit_code' = <<1>>

Continue(here, next) ==
    /\ pc' = next
    /\ steps' = Append(steps, here)
    /\ UNCHANGED <<exc, exit_code>>

----------------------------------------------------------------------------
(* The run *)

\* lines 22-64: log the start, parse the command line, call make_text_input
Main ==
    /\ pc = "main"
    /\ log' = log \o <<Record("INFO", "make_text.py started"), Record("INFO", "params")>>
    /\ params' = Bind(CallArguments(ParseArgs(argv)))
    /\ Continue("main", "read")
    /\ UNCHANGED <<argv, inputFile, outFile, input_df, out_df, missing_fastq_files, todo>>

\* lines 79-87: read the spreadsheet.  The handler of an ordinary exception
\* evaluates logging.info.error, and a function has no attribute "error": the
\* AttributeError leaves make_text_input before anything is logged.
ReadInput ==
    /\ pc = "read"
    /\ IF inputFile.readable
       THEN /\ input_df' = ReadExcel(inputFile)
            /\ log' = log \o <<Record("INFO", "Making input.txt file"),
                               Record("INFO", "Successfully opened")>>
            /\ Continue("read", "input_null_check")
       ELSE /\ log' = Append(log, Record("INFO", "Making input.txt file"))
            /\ Raise("AttributeError")
            /\ UNCHANGED <<input_df, steps>>
    /\ UNCHANGED <<argv, inputFile, outFile, params, out_df, missing_fastq_files, todo>>

\* lines 89-90: no row of the spreadsheet may hold a NaN
InputNullCheck ==
    /\ pc = "input_null_check"
    /\ log' = Append(log, Record("INFO", "Checking for null values"))
    /\ IF Cardinality(NullRows(input_df)) = 0
       THEN Continue("input_null_check", "derive")
       ELSE Raise("AssertionError") /\ UNCHANGED steps
    /\ UNCHANGED <<argv, inputFile, outFile, params, input_df, out_df,
                   missing_fastq_files, todo>>

\* lines 92-100: the name column and the two path columns
DerivePaths ==
    /\ pc = "derive"
    /\ LET df0 == Rename(Select(input_df, <<"NGS_sample_name">>), <<"name">>)
           df1 == SetItem(df0, "fastq_r1", AddRight(df0.data["name"], "_R1_001.fastq.gz"), "str")
           df2 == SetItem(df1, "fastq_r1",
                          AddLeft(params.fastq_dir, AsTypeStr(df1.data["fastq_r1"])), "str")
           df3 == SetItem(df2, "fastq_r2", AddRight(df2.data["name"], "_R2_001.fastq.gz"), "str")
           df4 == SetItem(df3, "fastq_r2",
                          AddLeft(params.fastq_dir, AsTypeStr(df3.data["fastq_r2"])), "str")
       IN out_df' = df4
    /\ Continue("derive", "fastq_check")
    /\ UNCHANGED <<argv, inputFile, outFile, log, params, input_df,
                   missing_fastq_files, todo>>

\* lines 102-104: the derived paths that do not exist, as a set
FastqCheck ==
    /\ pc = "fastq_check"
    /\ log' = Append(log, Record("INFO", "Checking that all paths to fastq files exist"))
    /\ \E present \in SUBSET (Values(out_df.data["fastq_r1"]) \cup Values(out_df.data["fastq_r2"])) :
          /\ missing_fastq_files' =
                 {x \in Values(out_df.data["fastq_r2"]) : x \notin present}
                 \cup {x \in Values(out_df.data["fastq_r1"]) : x \notin present}
          /\ todo' = missing_fastq_files'
    /\ Continue("fastq_check", "warn")
    /\ UNCHANGED <<argv, inputFile, outFile, params, input_df, out_df>>

\* lines 106-110: one pass of the loop; a set is visited in no particular order
WarnMissing ==
    /\ pc = "warn"
    /\ todo # {}
    /\ \E file \in todo :
          /\ log' = Append(log, LogMissing(file))
          /\ todo' = todo \ {file}
    /\ Continue("warn", "warn")
    /\ UNCHANGED <<argv, inputFile, outFile, params, input_df, out_df, missing_fastq_files>>

\* mutant: the loop is left before every missing file was visited
InsertParams_LeavesLoopEarly ==
    /\ pc = "warn"
    /\ LET df1 == Insert(out_df, 1, "quantification_window_center",
                         Broadcast(out_df, params.quantification_window_center), "int")
           df2 == Insert(df1, 2, "quantification_window_size",
                         Broadcast(out_df, params.quantification_window_size), "int")
           df3 == Insert(df2, 3, "min_average_read_quality",
                         Broadcast(out_df, params.min_average_read_quality), "int")
       IN out_df' = df3
    /\ Continue("insert_params", "dir_assert")
    /\ UNCHANGED <<argv, inputFile, outFile, log, params, input_df,
                   missing_fastq_files, todo>>

\* lines 112-116: the three integer parameters, inserted after the name column
InsertParams ==
    /\ pc = "warn"
    /\ todo = {}
    /\ LET df1 == Insert(out_df, 1, "quantification_window_center",
                         Broadcast(out_df, params.quantification_window_center), "int")
           df2 == Insert(df1, 2, "quantification_window_size",
                         Broadcast(out_df, params.quantification_window_size), "int")
           df3 == Insert(df2, 3, "min_average_read_quality",
                         Broadcast(out_df, params.min_average_read_quality), "int")
       IN out_df' = df3
    /\ Continue("insert_params", "dir_assert")
    /\ UNCHANGED <<argv, inputFile, outFile, log, params, input_df,
                   missing_fastq_files, todo>>

EndsWithSeparator(dir) == Len(dir) > 0 /\ SubSeq(dir, Len(dir), Len(dir)) = "/"

\* a file found under "<dir>/" means the directory is there
DirMayBe(exists) ==
    (/\ EndsWithSeparator(params.fastq_dir)
     /\ (Values(out_df.data["fastq_r1"]) \cup Values(out_df.data["fastq_r2"]))
            \ missing_fastq_files # {})
    => exists

\* lines 118-119: the fastq directory must exist
DirAssert ==
    /\ pc = "dir_assert"
    /\ \E exists \in BOOLEAN :
          /\ DirMayBe(exists)
          /\ IF exists
             THEN Continue("dir_assert", "copy_columns")
             ELSE Raise("AssertionError") /\ UNCHANGED steps
    /\ UNCHANGED <<argv, inputFile, outFile, log, params, input_df, out_df,
                   missing_fastq_files, todo>>

\* lines 121-124: the two sequence columns and the two plotting parameters
CopyColumns ==
    /\ pc = "copy_columns"
    /\ LET df1 == SetItem(out_df, "amplicon_seq",
                          Select(input_df, <<"Ref_sequence">>).data["Ref_sequence"], "str")
           df2 == SetItem(df1, "guide_seq",
                          Select(input_df, <<"Guide_Sequence">>).data["Guide_Sequence"], "str")
           df3 == SetItem(df2, "min_frequency_alleles_around_cut_to_plot",
                          Broadcast(out_df, params.min_frequency_alleles_around_cut_to_plot),
                          "float")
           df4 == SetItem(df3, "plot_window_size",
                          Broadcast(out_df, params.plot_window_size), "int")
       IN out_df' = df4
    /\ Continue("copy_columns", "final_null_check")
    /\ UNCHANGED <<argv, inputFile, outFile, log, params, input_df,
                   missing_fastq_files, todo>>

\* line 126: no row of the final table may hold a NaN
FinalNullCheck ==
    /\ pc = "final_null_check"
    /\ IF Cardinality(NullRows(out_df)) = 0
       THEN Continue("final_null_check", "write")
       ELSE Raise("AssertionError") /\ UNCHANGED steps
    /\ UNCHANGED <<argv, inputFile, outFile, log, params, input_df, out_df,
                   missing_fastq_files, todo>>

\* lines 128-133: write the table; a path that cannot be written raises an
\* ordinary exception, which is logged and dropped
WriteOutput ==
    /\ pc = "write"
    /\ \E writable \in BOOLEAN :
          IF writable
          THEN outFile' = ToCsv(out_df) /\ UNCHANGED log
          ELSE log' = Append(log, Record("ERROR", "Failed to write file")) /\ UNCHANGED outFile
    /\ Continue("write", "log_success")
    /\ UNCHANGED <<argv, inputFile, params, input_df, out_df, missing_fastq_files, todo>>

\* line 135
LogSuccess ==
    /\ pc = "log_success"
    /\ log' = Append(log, Record("INFO", "Successfully converted"))
    /\ Continue("log_success", "exit")
    /\ UNCHANGED <<argv, inputFile, outFile, params, input_df, out_df,
                   missing_fastq_files, todo>>

\* mutant: the exit status reports a failed write
Exit_ReportsFailure ==
    /\ pc = "exit"
    /\ pc' = "done"
    /\ exit_code' = IF \E k \in 1..Len(log) : log[k].level = "ERROR" /\ log[k].msg = "Failed to write file"
                    THEN <<1>> ELSE <<0>>
    /\ steps' = Append(steps, "exit")
    /\ UNCHANGED <<argv, inputFile, outFile, log, params, input_df, out_df,
                   missing_fastq_files, todo, exc>>

\* line 137: sys.exit(0)
Exit ==
    /\ pc = "exit"
    /\ pc' = "done"
    /\ exit_code' = <<0>>
    /\ steps' = Append(steps, "exit")
    /\ UNCHANGED <<argv, inputFile, outFile, log, params, input_df, out_df,
                   missing_fastq_files, todo, exc>>

----------------------------------------------------------------------------
(* Runs *)

Start(lines, files, outs) ==
    /\ argv \in lines
    /\ inputFile \in files
    /\ outFile \in outs
    /\ log = StartupLog
    /\ pc = "main"
    /\ params = NoParams
    /\ input_df = NoFrame
    /\ out_df = NoFrame
    /\ missing_fastq_files = {}
    /\ todo = {}
    /\ steps = <<>>
    /\ exc = ""
    /\ exit_code = <<>>

\* every spreadsheet of up to MaxRows rows, with the options all omitted or all given
Init ==
    Start({CommandLine(d, g) : d \in FastqDirs, g \in {{}, OptionNames}},
          {Unreadable} \cup {Workbook(r) : r \in Sheets},
          {Absent, Stale})

Next ==
    \/ Main
    \/ ReadInput
    \/ InputNullCheck
    \/ DerivePaths
    \/ FastqCheck
    \/ WarnMissing
    \/ InsertParams
    \/ DirAssert
    \/ CopyColumns
    \/ FinalNullCheck
    \/ WriteOutput
    \/ LogSuccess
    \/ Exit

Spec == Init /\ [][Next]_vars

WellFormed(rows) ==
    \A i \in 1..Len(rows) : \A c \in DOMAIN rows[i] : ~IsNull(rows[i][c])

\* every choice of options, over the spreadsheets without an empty cell
InitArgs ==
    Start({CommandLine("/data/", g) : g \in SUBSET OptionNames},
          {Workbook(r) : r \in {x \in Sheets : WellFormed(x)}},
          {Absent})

SpecArgs == InitArgs /\ [][Next]_vars

----------------------------------------------------------------------------
(* Vocabulary of the properties *)

Done(step) == \E k \in 1..Len(steps) : steps[k] = step

LastStep == IF Len(steps) = 0 THEN "" ELSE steps[Len(steps)]

Logged(level, msg) == \E k \in 1..Len(log) : log[k] = Record(level, msg)

Count(level, msg) == Cardinality({k \in 1..Len(log) : log[k] = Record(level, msg)})

WriteFailed == Logged("ERROR", "Failed to write file")

\* the run wrote its table to the output file
Written == Done("write") /\ ~WriteFailed

AtOrPastWrite == pc \in {"write", "log_success", "exit", "done"}

SheetHasNull(cols) ==
    /\ inputFile.readable
    /\ \E i \in 1..Len(inputFile.rows) : \E c \in cols : IsNull(inputFile.rows[i][c])

SelectedColumns == {"NGS_sample_name", "Ref_sequence", "Guide_Sequence"}
AllColumns == {SheetColumns[k] : k \in 1..Len(SheetColumns)}

\* the cell of data row i of the output file under the header label col
Field(i, col) ==
    outFile.rows[i][CHOOSE k \in 1..Len(outFile.header) : outFile.header[k] = col]

SampleName(i) == inputFile.rows[i].NGS_sample_name[1]

\* the assertion of line 119 is the one that failed
AbortedOnDirectory == pc = "aborted" /\ LastStep = "insert_params"

OutputHeader ==
    <<"name", "quantification_window_center", "quantification_window_size",
      "min_average_read_quality", "fastq_r1", "fastq_r2", "amplicon_seq", "guide_seq",
      "min_frequency_alleles_around_cut_to_plot", "plot_window_size">>

DefaultText ==
    [quantification_window_center |-> "-3",
     quantification_window_size |-> "1",
     min_average_read_quality |-> "10",
     min_frequency_alleles_around_cut_to_plot |-> "0.2",
     plot_window_size |-> "20"]

ExpectedText(opt) ==
    IF argv.opts[opt] = <<>> THEN DefaultText[opt] ELSE argv.opts[opt][1]

----------------------------------------------------------------------------
(* Properties *)

\* C1: a spreadsheet of N rows without an empty cell is written as N data rows
\* under one header, the i-th data row made from the i-th spreadsheet row; such
\* a run stops short of the write only when the fastq directory is missing.
C1_OneRowPerSample ==
    (inputFile.readable /\ ~SheetHasNull(AllColumns)) =>
        /\ pc = "aborted" => AbortedOnDirectory
        /\ Written =>
              /\ outFile.exists
              /\ Len(outFile.header) = Len(OutputHeader)
              /\ Len(outFile.rows) = Len(inputFile.rows)
              /\ \A i \in 1..Len(inputFile.rows) :
                    /\ Field(i, "name") = SampleName(i)
                    /\ Field(i, "amplicon_seq") = inputFile.rows[i].Ref_sequence[1]

C1_Witness ==
    /\ pc = "done"
    /\ Written
    /\ Len(inputFile.rows) = 2
    /\ SampleName(1) = "S2"
    /\ SampleName(2) = "S1"
    /\ Len(outFile.rows) = 2

\* C2: fastq_r1 and fastq_r2 of every row are the fastq_dir argument as given,
\* the row's sample name and the suffix, put end to end with nothing between.
C2_PlainConcatenation ==
    /\ Done("derive") =>
          \A i \in 1..out_df.n :
              /\ out_df.data["fastq_r1"][i] =
                     <<argv.fastq_dir \o SampleName(i) \o "_R1_001.fastq.gz">>
              /\ out_df.data["fastq_r2"][i] =
                     <<argv.fastq_dir \o SampleName(i) \o "_R2_001.fastq.gz">>
    /\ Written =>
          \A i \in 1..Len(outFile.rows) :
              /\ Field(i, "fastq_r1") = argv.fastq_dir \o SampleName(i) \o "_R1_001.fastq.gz"
              /\ Field(i, "fastq_r2") = argv.fastq_dir \o SampleName(i) \o "_R2_001.fastq.gz"

C2_Witness ==
    /\ Written
    /\ argv.fastq_dir = "/data"
    /\ Len(outFile.rows) = 2
    /\ Field(2, "fastq_r2") = "/dataS2_R2_001.fastq.gz"

\* C3: a spreadsheet with an empty cell in one of the three selected columns
\* never reaches the write; the run ends in an AssertionError and the output
\* file stays as it was.
C3_NullCellAborts ==
    /\ [](SheetHasNull(SelectedColumns) =>
             /\ ~AtOrPastWrite
             /\ ~Done("write")
             /\ exit_code # <<0>>
             /\ pc = "aborted" => exc = "AssertionError")
    /\ [][SheetHasNull(SelectedColumns) => outFile' = outFile]_vars

C3_Witness ==
    /\ SheetHasNull({"Guide_Sequence"})
    /\ ~SheetHasNull({"NGS_sample_name", "Ref_sequence", "Notes"})
    /\ pc = "aborted"
    /\ exc = "AssertionError"
    /\ outFile = Stale

\* C4: a missing fastq file is logged once, as a warning and never as an error;
\* it neither ends the run (after the existence check only the directory
\* assertion does) nor takes a row or a path out of the written table.
C4_MissingFilesOnlyWarn ==
    /\ [](Done("fastq_check") =>
             /\ \A f \in missing_fastq_files \ todo :
                   /\ Count("WARNING", MissingMessage(f)) = 1
                   /\ Count("ERROR", MissingMessage(f)) = 0
             /\ \A k \in 1..Len(log) :
                   log[k].level = "ERROR" =>
                       log[k].msg \in {"ERROR message.", "Failed to write file"}
             /\ pc = "aborted" => AbortedOnDirectory
             /\ pc \notin {"warn", "aborted"} => todo = {}
             /\ Written =>
                   /\ Len(outFile.rows) = Len(inputFile.rows)
                   /\ \A i \in 1..Len(inputFile.rows) :
                         /\ Field(i, "name") = SampleName(i)
                         /\ Field(i, "fastq_r1") = out_df.data["fastq_r1"][i][1]
                         /\ Field(i, "fastq_r2") = out_df.data["fastq_r2"][i][1])
    /\ [][Done("derive") =>
             /\ out_df'.data["fastq_r1"] = out_df.data["fastq_r1"]
             /\ out_df'.data["fastq_r2"] = out_df.data["fastq_r2"]
             /\ out_df'.n = out_df.n]_vars

C4_Witness ==
    /\ pc = "done"
    /\ Written
    /\ Len(outFile.rows) = 2
    /\ Cardinality(missing_fastq_files) = 4
    /\ Count("WARNING", MissingMessage("/data/S1_R1_001.fastq.gz")) = 1

\* C5: a spreadsheet that cannot be read is logged as an error and the run goes
\* on to the null check, where input_df is still unbound.
C5_ReadFailureLoggedAndDropped ==
    (~inputFile.readable /\ pc # "main" /\ pc # "read") =>
        /\ \E k \in 1..Len(log) : log[k].level = "ERROR" /\ log[k].msg = "Failed to open file"
        /\ exc # "AttributeError"
        /\ ~input_df.defined
        /\ LastStep = "read" \/ Done("read")

\* C6: a write that fails is logged as an error and dropped: the output file
\* stays as it was, the success message is logged all the same, and the process
\* ends with status 0 whether the write failed or not.
C6_WriteFailureStillExitsZero ==
    /\ [](/\ (Done("write") /\ WriteFailed) =>
                /\ pc \in {"log_success", "exit", "done"}
                /\ exc = ""
                /\ Count("ERROR", "Failed to write file") = 1
          /\ (Done("write") /\ ~WriteFailed) => outFile = ToCsv(out_df)
          /\ pc = "done" =>
                /\ Done("write")
                /\ exit_code = <<0>>
                /\ log[Len(log)] = Record("INFO", "Successfully converted"))
    /\ [][WriteFailed' => outFile' = outFile]_vars

C6_Witness ==
    /\ pc = "done"
    /\ WriteFailed
    /\ outFile = Absent
    /\ exit_code = <<0>>

C8_ColumnOrderAndSequences ==
    /\ Done("copy_columns") => out_df.columns = OutputHeader
    /\ Written =>
          /\ outFile.header = OutputHeader
          /\ \A i \in 1..Len(outFile.rows) :
                /\ Len(outFile.rows[i]) = Len(OutputHeader)
                /\ outFile.rows[i][7] = inputFile.rows[i].Ref_sequence[1]
                /\ outFile.rows[i][8] = inputFile.rows[i].Guide_Sequence[1]

C8_Witness ==
    /\ Written
    /\ Len(outFile.rows) = 2
    /\ outFile.rows[1][7] = "TTGA"
    /\ outFile.rows[2][7] = "ACGT"
    /\ outFile.rows[1][8] = "AC"

\* the checks passed before the write, in program order
ChecksInOrder ==
    \E a, b, c \in 1..Len(steps) :
        /\ a < b
        /\ b < c
        /\ steps[a] = "input_null_check"
        /\ steps[b] = "dir_assert"
        /\ steps[c] = "final_null_check"
        /\ \A w \in 1..Len(steps) : steps[w] = "write" => c < w

\* C9: the write comes only after the input null check, the directory assertion
\* and the final null check, passed in that order; the directory assertion is
\* reached with every missing file already logged, and a run it stops has
\* written nothing and does not end with status 0.
C9_StepOrder ==
    /\ []((AtOrPastWrite \/ Done("write")) => ChecksInOrder)
    /\ []((pc = "dir_assert" \/ AbortedOnDirectory \/ Done("dir_assert")) =>
             /\ todo = {}
             /\ \A f \in missing_fastq_files : Logged("WARNING", MissingMessage(f)))
    /\ [](AbortedOnDirectory =>
             /\ exc = "AssertionError"
             /\ exit_code = <<1>>
             /\ ~Done("write")
             /\ ~Logged("INFO", "Successfully converted"))
    /\ [][~Done("final_null_check") => outFile' = outFile]_vars

C9_Witness ==
    /\ AbortedOnDirectory
    /\ Cardinality(missing_fastq_files) = 4
    /\ outFile = Stale

\* C10: an empty cell in any column of the spreadsheet, the columns the output
\* does not use included, stops the run at the first assertion: no path has
\* been derived, no missing file logged and nothing written.
C10_AnyColumnNullAborts ==
    /\ [](SheetHasNull(AllColumns) =>
             /\ pc \in {"main", "read", "input_null_check", "aborted"}
             /\ pc = "aborted" => (exc = "AssertionError" /\ LastStep = "read")
             /\ out_df = NoFrame
             /\ missing_fastq_files = {}
             /\ \A k \in 1..Len(log) : log[k].level = "WARNING" => log[k] = StartupLog[3])
    /\ [][SheetHasNull(AllColumns) => outFile' = outFile]_vars

C10_Witness ==
    /\ SheetHasNull({"Notes"})
    /\ ~SheetHasNull(SelectedColumns)
    /\ Len(inputFile.rows) = 2
    /\ pc = "aborted"
    /\ exc = "AssertionError"

====
